---- MODULE Spec2Model ----
(***************************************************************************)
(* Model of src/index.ts: an interactive 2D function plotter.              *)
(*                                                                         *)
(* State: the live PlotView `view`, the drag session `dragging`, the       *)
(* canvas bitmap dimensions `canvas`, the cursor style, the calls the last *)
(* animation tick made (`ops`), the animation callbacks pending at the     *)
(* host and the position of the tick being run (`pc`).  `down` is a        *)
(* history variable: the pointer-down that opened the session, with the    *)
(* canvas dimensions and the live view at that moment; `ignored` tells     *)
(* whether the event delivered last was a pointer event the controller's   *)
(* state machine ignores.  `job` and `res` hold the arguments and the      *)
(* result of one call of a pure function.                                  *)
(*                                                                         *)
(* Numbers.  A JavaScript number is modelled as an exact rational <<n, d>> *)
(* in lowest terms with d > 0, extended by the three non-finite values the *)
(* code can produce by dividing by zero:                                   *)
(*     <<1, 0>> = +Infinity,  <<-1, 0>> = -Infinity,  <<0, 0>> = NaN.      *)
(* Rounding of binary floating point is not modelled.  Every zero divisor  *)
(* the program computes is the result of a subtraction or an unsigned      *)
(* canvas dimension, hence +0, so x / 0 has the sign of x.                 *)
(*                                                                         *)
(* Not modelled: the pixels of the canvas and the sample values of the     *)
(* plotted curves (Math.sin, Date.now); plot is recorded as a call.        *)
(***************************************************************************)
EXTENDS Integers, Sequences, FiniteSets, TLC

VARIABLES view, dragging, canvas, cursor, ops, pending, pc,
          down, ignored, nEvents, job, res

vars == <<view, dragging, canvas, cursor, ops, pending, pc,
          down, ignored, nEvents, job, res>>

-----------------------------------------------------------------------------
(* Bounds of the model *)

\* input events (pointer, wheel, resize) the host delivers in one behaviour
MaxEvents == 4
\* largest sample count given to integrate
MaxSamples == 4

-----------------------------------------------------------------------------
(* Arithmetic on extended rationals *)

Abs(n) == IF n < 0 THEN -n ELSE n

Sign(n) == IF n > 0 THEN 1 ELSE IF n < 0 THEN -1 ELSE 0

RECURSIVE GCD(_, _)
GCD(a, b) == IF b = 0 THEN a ELSE GCD(b, a % b)

\* lowest terms, positive denominator; a zero denominator keeps only the sign
Norm(n, d) ==
    IF d = 0 THEN <<Sign(n), 0>>
    ELSE LET g == GCD(Abs(n), Abs(d))
         IN  <<(Sign(d) * n) \div g, Abs(d) \div g>>

Num(n) == <<n, 1>>
Frac(n, d) == Norm(n, d)

NaN  == <<0, 0>>
PInf == <<1, 0>>
NInf == <<-1, 0>>

IsNaN(a)    == a = NaN
IsFinite(a) == a[2] # 0

Neg(a) == <<-a[1], a[2]>>

\* a + b (Infinity + -Infinity = NaN)
Add(a, b) ==
    IF a[2] # 0 /\ b[2] # 0
    THEN LET g == GCD(a[2], b[2])
         IN  Norm(a[1] * (b[2] \div g) + b[1] * (a[2] \div g), (a[2] \div g) * b[2])
    ELSE IF IsNaN(a) \/ IsNaN(b) THEN NaN
    ELSE IF ~IsFinite(a) /\ ~IsFinite(b) THEN (IF a = b THEN a ELSE NaN)
    ELSE IF ~IsFinite(a) THEN a
    ELSE b

Sub(a, b) == Add(a, Neg(b))

\* a * b (Infinity * 0 = NaN)
Mul(a, b) ==
    IF a[2] # 0 /\ b[2] # 0
    THEN LET g1 == GCD(Abs(a[1]), b[2])
             g2 == GCD(Abs(b[1]), a[2])
         IN  <<(a[1] \div g1) * (b[1] \div g2), (a[2] \div g2) * (b[2] \div g1)>>
    ELSE <<Sign(a[1] * b[1]), 0>>

\* 1 / a (1 / 0 = +Infinity, 1 / Infinity = 0)
Recip(a) ==
    IF a[1] > 0 THEN <<a[2], a[1]>>
    ELSE IF a[1] < 0 THEN <<-a[2], -a[1]>>
    ELSE IF a[2] = 0 THEN NaN
    ELSE PInf

\* a / b
Div(a, b) == Mul(a, Recip(b))

\* a <= b (false when either is NaN)
Leq(a, b) ==
    IF IsNaN(a) \/ IsNaN(b) THEN FALSE
    ELSE IF ~IsFinite(a) /\ ~IsFinite(b) THEN a[1] <= b[1]
    ELSE a[1] * b[2] <= b[1] * a[2]

Lt(a, b)  == Leq(a, b) /\ a # b
Geq(a, b) == Leq(b, a)
Gt(a, b)  == Lt(b, a)

-----------------------------------------------------------------------------
(* Coordinate mapper and PlotView *)

\* function map(v, fmin, fmax, tmin, tmax)
map(v, fmin, fmax, tmin, tmax) ==
    Add(Mul(Div(Sub(v, fmin), Sub(fmax, fmin)), Sub(tmax, tmin)), tmin)

Point(x, y) == [x |-> x, y |-> y]
Rect(w, h)  == [w |-> w, h |-> h]

\* new PlotView(center, size)
PlotView(center, size) == [center |-> center, size |-> size]

\* get top_left()
top_left(v) ==
    Point(Sub(v.center.x, Div(v.size.w, Num(2))),
          Add(v.center.y, Div(v.size.h, Num(2))))

\* get bottom_right()
bottom_right(v) ==
    LET tl == top_left(v)
    IN  Point(Add(tl.x, v.size.w), Sub(tl.y, v.size.h))

\* PlotView.project: plot space -> screen space, cv = <<canvas.width, canvas.height>>
project(v, cv, p) ==
    LET cx == v.center.x
        cy == v.center.y
        w  == v.size.w
        h  == v.size.h
    IN  Point(map(p.x, Sub(cx, Div(w, Num(2))), Add(cx, Div(w, Num(2))), Num(0), Num(cv[1])),
              map(p.y, Sub(cy, Div(h, Num(2))), Add(cy, Div(h, Num(2))), Num(cv[2]), Num(0)))

\* faulty variant of unproject: the corners are those the view had when constructed
unproject_stale(v, cv, p) ==
    LET v0 == PlotView(Point(Num(2), Num(0)), Rect(Num(4), Num(8)))
        br == bottom_right(v0)
        tl == top_left(v0)
    IN  Point(map(p.x, Num(0), Num(cv[1]), tl.x, br.x),
              map(p.y, Num(cv[2]), Num(0), br.y, tl.y))

\* PlotView.unproject: screen space -> plot space
unproject(v, cv, p) ==
    LET br == bottom_right(v)
        tl == top_left(v)
    IN  Point(map(p.x, Num(0), Num(cv[1]), tl.x, br.x),
              map(p.y, Num(cv[2]), Num(0), br.y, tl.y))

-----------------------------------------------------------------------------
(* Renderer: grid *)

\* ctx.lineWidth values assigned by grid
AxisWidth  == Num(2)
MajorWidth == Frac(8, 10)
MinorWidth == Frac(2, 10)

\* x % 1 (the remainder takes the sign of the dividend)
Mod1(x) ==
    IF ~IsFinite(x) THEN NaN
    ELSE Norm(Sign(x[1]) * (Abs(x[1]) % x[2]), x[2])

\* for (let c = from; c <= bound; c += step): the values c takes
RECURSIVE UpLoop(_, _, _)
UpLoop(c, bound, step) ==
    IF Leq(c, bound) THEN <<c>> \o UpLoop(Add(c, step), bound, step) ELSE <<>>

\* for (let c = from; c >= bound; c -= step): the values c takes
RECURSIVE DownLoop(_, _, _)
DownLoop(c, bound, step) ==
    IF Geq(c, bound) THEN <<c>> \o DownLoop(Sub(c, step), bound, step) ELSE <<>>

\* one beginPath/moveTo/lineTo/stroke: a full-height ("v") or full-width ("h")
\* line at plot coordinate `at`, screen coordinate `px`, stroked with `width`
Stroke(kind, dir, at, px, width) ==
    [kind |-> kind, dir |-> dir, at |-> at, px |-> px, width |-> width]

\* the two axis lines through the projected origin (lines 113-126)
gridAxes(v, cv) ==
    LET origin == project(v, cv, Point(Num(0), Num(0)))
    IN  << Stroke("axis", "h", Num(0), origin.y, AxisWidth),
           Stroke("axis", "v", Num(0), origin.x, AxisWidth) >>

\* vertical lines right of x = granularity: the only loop that picks a width
gridRight(v, cv, granularity) ==
    LET xs == UpLoop(granularity, bottom_right(v).x, granularity)
    IN  [i \in 1..Len(xs) |->
            Stroke("minor", "v", xs[i], project(v, cv, Point(xs[i], Num(0))).x,
                   IF Lt(Mod1(xs[i]), Frac(1, 100)) THEN MajorWidth ELSE MinorWidth)]

\* vertical lines from x = granularity leftwards; lineWidth is what line 149 left
gridLeft(v, cv, granularity) ==
    LET xs == DownLoop(granularity, top_left(v).x, granularity)
    IN  [i \in 1..Len(xs) |->
            Stroke("minor", "v", xs[i], project(v, cv, Point(xs[i], Num(0))).x, MinorWidth)]

\* horizontal lines from y = granularity upwards; lineWidth still from line 149
gridUp(v, cv, granularity) ==
    LET ys == UpLoop(granularity, top_left(v).y, granularity)
    IN  [i \in 1..Len(ys) |->
            Stroke("minor", "h", ys[i], project(v, cv, Point(Num(0), ys[i])).y, MinorWidth)]

\* horizontal lines from y = granularity downwards; lineWidth still from line 149
gridDown(v, cv, granularity) ==
    LET ys == DownLoop(granularity, bottom_right(v).y, granularity)
    IN  [i \in 1..Len(ys) |->
            Stroke("minor", "h", ys[i], project(v, cv, Point(Num(0), ys[i])).y, MinorWidth)]

\* a loop of grid whose bound is an infinity of the loop's direction never exits
gridDiverges(v) ==
    \/ bottom_right(v).x = PInf
    \/ top_left(v).x = NInf
    \/ top_left(v).y = PInf
    \/ bottom_right(v).y = NInf

\* function grid(view, granularity): the strokes it issues, in order
grid(v, cv, granularity) ==
    gridAxes(v, cv) \o gridRight(v, cv, granularity) \o gridLeft(v, cv, granularity)
        \o gridUp(v, cv, granularity) \o gridDown(v, cv, granularity)

-----------------------------------------------------------------------------
(* Numerical integrator *)

\* the integrands the model integrates
Fns == {"zero", "one", "id", "sq"}

Apply(f, x) ==
    CASE f = "zero" -> Num(0)
      [] f = "one"  -> Num(1)
      [] f = "id"   -> x
      [] f = "sq"   -> Mul(x, x)

\* the loop of integrate from index i on: area += width * f(x)
RECURSIVE integrateFrom(_, _, _, _, _, _, _)
integrateFrom(f, start, end, samples, width, i, area) ==
    IF i < samples
    THEN LET x == map(Num(i), Num(0), Num(samples - 1), start, end)
             y == Apply(f, x)
         IN  integrateFrom(f, start, end, samples, width, i + 1, Add(area, Mul(width, y)))
    ELSE area

\* function integrate(f, start, end, samples)
integrate(f, start, end, samples) ==
    LET width == map(Num(1), Num(0), Num(samples - 1), start, end)
    IN  integrateFrom(f, start, end, samples, width, 0, Num(0))

-----------------------------------------------------------------------------------------------------------------------------------------------------
(* Inputs the host delivers *)

\* e.pointerId: the pointer of a session and one other pointer
PointerIds == {1, 2}

\* e.x, e.y of pointer events (client pixels)
Positions == {<<400, 300>>, <<450, 300>>, <<200, 450>>}

\* e.deltaY of wheel events: one notch out, one notch in, and a stroke large
\* enough to bring the zoom factor 1 + 0.1 * deltaY / 125 to 0
DeltaYs == {125, -125, -1250}

\* contentRect sizes the ResizeObserver reports
Surfaces == {<<800, 600>>, <<0, 0>>}

\* granularity render passes to grid
Granularity == Frac(1, 2)

\* an input event
Event(type, id, x, y, dy) == [type |-> type, id |-> id, x |-> x, y |-> y, dy |-> dy]

-----------------------------------------------------------------------------
(* Interaction controller: the handlers as functions of the program state   *)
(* s = [view, dragging, cursor].  dragging is <<>> (undefined) or <<d>>     *)
(* with d = [pointer_id, start, view] (DragData).                          *)

\* faulty variant of pointerdown: no early return while a session is active
pointerdown_noguard(s, cv, e) ==
    [s EXCEPT
        !.cursor = "grabbing",
        !.dragging = << [pointer_id |-> e.id,
                         start |-> unproject(s.view, cv, Point(Num(e.x), Num(e.y))),
                         view |-> PlotView(Point(s.view.center.x, s.view.center.y),
                                           Rect(s.view.size.w, s.view.size.h))] >>]

\* canvas.addEventListener('pointerdown', ...)
pointerdown(s, cv, e) ==
    IF s.dragging # <<>> THEN s
    ELSE [s EXCEPT
            !.cursor = "grabbing",
            !.dragging = << [pointer_id |-> e.id,
                             start |-> unproject(s.view, cv, Point(Num(e.x), Num(e.y))),
                             view |-> PlotView(Point(s.view.center.x, s.view.center.y),
                                               Rect(s.view.size.w, s.view.size.h))] >>]

\* faulty variant of pointermove: the new point is unprojected with the live view and
\* the live centre is shifted, so that successive moves compound
pointermove_live(s, cv, e) ==
    IF s.dragging = <<>> THEN s
    ELSE IF s.dragging[1].pointer_id # e.id THEN s
    ELSE LET d     == s.dragging[1]
             point == unproject(s.view, cv, Point(Num(e.x), Num(e.y)))
             diff  == Point(Sub(point.x, d.start.x), Sub(d.start.y, point.y))
         IN  [s EXCEPT !.view.center = Point(Sub(s.view.center.x, diff.x),
                                             Add(s.view.center.y, diff.y))]

\* faulty variant of pointermove: the centre is shifted with the delta, not against it
pointermove_inverted(s, cv, e) ==
    IF s.dragging = <<>> THEN s
    ELSE IF s.dragging[1].pointer_id # e.id THEN s
    ELSE LET d     == s.dragging[1]
             point == unproject(d.view, cv, Point(Num(e.x), Num(e.y)))
             diff  == Point(Sub(point.x, d.start.x), Sub(d.start.y, point.y))
         IN  [s EXCEPT !.view.center = Point(Add(d.view.center.x, diff.x),
                                             Sub(d.view.center.y, diff.y))]

\* canvas.addEventListener('pointermove', ...)
pointermove(s, cv, e) ==
    IF s.dragging = <<>> THEN s
    ELSE IF s.dragging[1].pointer_id # e.id THEN s
    ELSE LET d     == s.dragging[1]
             point == unproject(d.view, cv, Point(Num(e.x), Num(e.y)))
             diff  == Point(Sub(point.x, d.start.x), Sub(d.start.y, point.y))
         IN  [s EXCEPT !.view.center = Point(Sub(d.view.center.x, diff.x),
                                             Add(d.view.center.y, diff.y))]

\* canvas.addEventListener('pointerup', ...)
pointerup(s, e) ==
    IF s.dragging = <<>> THEN s
    ELSE IF s.dragging[1].pointer_id # e.id THEN s
    ELSE [s EXCEPT !.cursor = "", !.dragging = <<>>]

\* faulty variant of wheel: the increment is not scaled by the current size
wheel_additive(s, e) ==
    LET dy == Num(e.dy)
        w  == s.view.size.w
        h  == s.view.size.h
    IN  [s EXCEPT
            !.view.size.w = Add(w, Div(Mul(Frac(1, 10), dy), Num(125))),
            !.view.size.h = Add(h, Div(Mul(Frac(1, 10), dy), Num(125)))]

\* faulty variant of wheel: the session's snapshot shares the live view's size object
wheel_aliased(s, e) ==
    LET dy == Num(e.dy)
        w  == s.view.size.w
        h  == s.view.size.h
        sz == Rect(Add(w, Div(Mul(Mul(w, Frac(1, 10)), dy), Num(125))),
                   Add(h, Div(Mul(Mul(h, Frac(1, 10)), dy), Num(125))))
    IN  [s EXCEPT
            !.view.size = sz,
            !.dragging = IF s.dragging = <<>> THEN <<>>
                         ELSE <<[s.dragging[1] EXCEPT !.view.size = sz]>>]

\* window.addEventListener('wheel', ...)
wheel(s, e) ==
    LET dy == Num(e.dy)
        w  == s.view.size.w
        h  == s.view.size.h
    IN  [s EXCEPT
            !.view.size.w = Add(w, Div(Mul(Mul(w, Frac(1, 10)), dy), Num(125))),
            !.view.size.h = Add(h, Div(Mul(Mul(h, Frac(1, 10)), dy), Num(125)))]

\* new ResizeObserver(...): the canvas dimensions after the callback; the
\* reported sizes are whole numbers, which the unsigned attributes keep
resize(rect) == <<rect[1], rect[2]>>

-----------------------------------------------------------------------------
(* Animation driver *)

\* function render(): the calls it makes, in order
render == <<"grid", "plot", "plot">>

\* function frame(t): clear(); render(); requestAnimationFrame(frame).
\* f = [ops, pending, pc]; the callback being run is no longer pending.
\* When a loop of grid never exits, control stays inside grid (pc = "grid")
\* and neither the plots nor requestAnimationFrame are reached.
frame(f, v) ==
    IF gridDiverges(v)
    THEN [ops     |-> <<"clear", "grid">>,
          pending |-> f.pending - 1,
          pc      |-> "grid"]
    ELSE [ops     |-> <<"clear">> \o render \o <<"requestAnimationFrame">>,
          pending |-> (f.pending - 1) + 1,
          pc      |-> "idle"]

-----------------------------------------------------------------------------
(* The state machine *)

S == [view |-> view, dragging |-> dragging, cursor |-> cursor]

\* one call of a pure function: its kind and its arguments
Job(kind, v, cv, p, granularity, f, start, end, samples) ==
    [kind |-> kind, view |-> v, cv |-> cv, p |-> p, granularity |-> granularity,
     f |-> f, start |-> start, end |-> end, samples |-> samples]

InitialView == PlotView(Point(Num(2), Num(0)), Rect(Num(4), Num(8)))

NoJob == Job("none", InitialView, <<0, 0>>, Point(Num(0), Num(0)), Num(0),
             "zero", Num(0), Num(0), 0)

\* the state once the script has run: lines 238-244, 268 and 336; a canvas
\* element is created 300 x 150
InitProgram ==
    /\ view = InitialView
    /\ dragging = <<>>
    /\ canvas = <<300, 150>>
    /\ cursor = ""
    /\ ops = <<>>
    /\ pending = 1
    /\ pc = "idle"
    /\ down = <<>>
    /\ ignored = FALSE
    /\ nEvents = 0

Init ==
    /\ InitProgram
    /\ job = NoJob
    /\ res = <<>>

PointerDown ==
    /\ pc = "idle"
    /\ nEvents < MaxEvents
    /\ \E id \in PointerIds, p \in Positions :
          LET e == Event("down", id, p[1], p[2], 0)
              t == pointerdown(S, canvas, e)
          IN  /\ view' = t.view
              /\ dragging' = t.dragging
              /\ cursor' = t.cursor
              /\ down' = IF dragging = <<>>
                         THEN <<[id |-> id, x |-> p[1], y |-> p[2], cv |-> canvas, view |-> view]>>
                         ELSE down
    /\ ignored' = (dragging # <<>>)
    /\ nEvents' = nEvents + 1
    /\ UNCHANGED <<canvas, ops, pending, pc, job, res>>

PointerMove ==
    /\ pc = "idle"
    /\ nEvents < MaxEvents
    /\ \E id \in PointerIds, p \in Positions :
          LET e == Event("move", id, p[1], p[2], 0)
              t == pointermove(S, canvas, e)
          IN  /\ view' = t.view
              /\ dragging' = t.dragging
              /\ cursor' = t.cursor
              /\ ignored' = (dragging = <<>> \/ dragging[1].pointer_id # id)
    /\ nEvents' = nEvents + 1
    /\ UNCHANGED <<canvas, ops, pending, pc, down, job, res>>

PointerUp ==
    /\ pc = "idle"
    /\ nEvents < MaxEvents
    /\ \E id \in PointerIds :
          LET e == Event("up", id, 0, 0, 0)
              t == pointerup(S, e)
          IN  /\ view' = t.view
              /\ dragging' = t.dragging
              /\ cursor' = t.cursor
              /\ down' = IF down # <<>> /\ down[1].id = id THEN <<>> ELSE down
              /\ ignored' = (dragging = <<>> \/ dragging[1].pointer_id # id)
    /\ nEvents' = nEvents + 1
    /\ UNCHANGED <<canvas, ops, pending, pc, job, res>>

Wheel ==
    /\ pc = "idle"
    /\ nEvents < MaxEvents
    /\ \E dy \in DeltaYs :
          LET e == Event("wheel", 0, 0, 0, dy)
              t == wheel(S, e)
          IN  /\ view' = t.view
              /\ dragging' = t.dragging
              /\ cursor' = t.cursor
    /\ ignored' = FALSE
    /\ nEvents' = nEvents + 1
    /\ UNCHANGED <<canvas, ops, pending, pc, down, job, res>>

Resize ==
    /\ pc = "idle"
    /\ nEvents < MaxEvents
    /\ \E rect \in Surfaces : canvas' = resize(rect)
    /\ ignored' = FALSE
    /\ nEvents' = nEvents + 1
    /\ UNCHANGED <<view, dragging, cursor, ops, pending, pc, down, job, res>>

\* the host runs a pending animation callback
Frame ==
    /\ pc = "idle"
    /\ pending > 0
    /\ LET t == frame([ops |-> ops, pending |-> pending, pc |-> pc], view)
       IN  /\ ops' = t.ops
           /\ pending' = t.pending
           /\ pc' = t.pc
    /\ UNCHANGED <<view, dragging, canvas, cursor, down, ignored, nEvents, job, res>>

Next == PointerDown \/ PointerMove \/ PointerUp \/ Wheel \/ Resize \/ Frame

Spec == Init /\ [][Next]_vars

-----------------------------------------------------------------------------
(* The pure functions, each applied once to arguments drawn from bounded sets *)

PureCenters  == {Point(Num(2), Num(0)), Point(Num(-1), Frac(3, 2))}
PureSizes    == {Rect(Num(4), Num(8)), Rect(Frac(22, 5), Frac(44, 5)),
                 Rect(Num(0), Num(0)), Rect(Num(-4), Num(-8))}
PureViews    == {PlotView(c, sz) : c \in PureCenters, sz \in PureSizes}
PureSurfaces == {<<800, 600>>, <<300, 150>>, <<0, 0>>}
PurePoints   == {Point(Num(0), Num(0)), Point(Num(1), Num(-2)), Point(Frac(7, 4), Frac(1, 2))}

\* granularities whose multiples a binary float holds exactly
Granularities == {Frac(1, 2), Frac(1, 4)}

Starts == {Num(0), Num(1), Num(-1)}
Ends   == {Num(2), Num(3)}

RoundTripJobs ==
    {Job("roundtrip", v, cv, p, Num(0), "zero", Num(0), Num(0), 0) :
        v \in PureViews, cv \in PureSurfaces, p \in PurePoints}

GridJobs ==
    {Job("grid", v, <<800, 600>>, Point(Num(0), Num(0)), g, "zero", Num(0), Num(0), 0) :
        v \in PureViews, g \in Granularities}

IntegrateJobs ==
    {Job("integrate", InitialView, <<0, 0>>, Point(Num(0), Num(0)), Num(0), f, a, b, n) :
        f \in Fns, a \in Starts, b \in Ends, n \in 1..MaxSamples}

InitPure ==
    /\ InitProgram
    /\ job \in RoundTripJobs \cup GridJobs \cup IntegrateJobs
    /\ res = <<>>

RunRoundTrip ==
    /\ job.kind = "roundtrip"
    /\ res = <<>>
    /\ res' = <<unproject(job.view, job.cv, project(job.view, job.cv, job.p))>>
    /\ UNCHANGED <<view, dragging, canvas, cursor, ops, pending, pc, down, ignored, nEvents, job>>

RunGrid ==
    /\ job.kind = "grid"
    /\ res = <<>>
    /\ ~gridDiverges(job.view)
    /\ res' = <<grid(job.view, job.cv, job.granularity)>>
    /\ UNCHANGED <<view, dragging, canvas, cursor, ops, pending, pc, down, ignored, nEvents, job>>

RunIntegrate ==
    /\ job.kind = "integrate"
    /\ res = <<>>
    /\ res' = <<integrate(job.f, job.start, job.end, job.samples)>>
    /\ UNCHANGED <<view, dragging, canvas, cursor, ops, pending, pc, down, ignored, nEvents, job>>

NextPure == RunRoundTrip \/ RunGrid \/ RunIntegrate

SpecPure == InitPure /\ [][NextPure]_vars

-----------------------------------------------------------------------------
(* Properties *)

MoveTo(id, p) == Event("move", id, p[1], p[2], 0)
DownAt(id, p) == Event("down", id, p[1], p[2], 0)
UpOf(id)      == Event("up", id, 0, 0, 0)
WheelBy(dy)   == Event("wheel", 0, 0, 0, dy)

Dragging == dragging # <<>>

\* C1: ignored pointer events are no-ops.  A pointer-down delivered while a
\* session is active, a pointer-move or pointer-up of a pointer other than
\* the session's, and a pointer-move or pointer-up delivered while idle, each
\* leave view, session (pointer id, anchor, snapshot) and cursor as they
\* are.  There is never more than one session.
C1_IgnoredPointerEventsAreNoOps ==
    /\ [](Len(dragging) <= 1)
    /\ [][ignored' => (view' = view /\ dragging' = dragging /\ cursor' = cursor)]_vars

\* a pointer event has just been ignored during a session whose live view
\* has already been moved
C1_Witness ==
    /\ ignored
    /\ Dragging
    /\ view.center # dragging[1].view.center

\* the centre the claim C2 gives for a move to p of a session opened by `down`
DragDeltaCenter(d, p) ==
    Point(Sub(d.view.center.x,
              Mul(Div(Num(p[1] - d.x), Num(d.cv[1])), d.view.size.w)),
          Add(d.view.center.y,
              Mul(Div(Num(p[2] - d.y), Num(d.cv[2])), d.view.size.h)))

FiniteView(v) ==
    /\ IsFinite(v.center.x) /\ IsFinite(v.center.y)
    /\ IsFinite(v.size.w) /\ IsFinite(v.size.h)

\* C2: drag delta.  For a session opened at screen (x0, y0) when the view had
\* (finite) centre (cx, cy) and size (w, h), a pointer-move of the session's
\* pointer to (x1, y1), delivered while the surface has the non-zero dimensions
\* (W, H) it had at the pointer-down, leaves the live centre at
\* (cx - (x1 - x0) / W * w, cy + (y1 - y0) / H * h), whatever moves and wheel
\* events came in between.
C2_DragDelta ==
    \A p \in Positions :
        ( /\ Dragging
          /\ down # <<>>
          /\ down[1].cv = canvas
          /\ canvas[1] # 0
          /\ canvas[2] # 0
          /\ FiniteView(down[1].view) )
        => pointermove(S, canvas, MoveTo(dragging[1].pointer_id, p)).view.center
             = DragDeltaCenter(down[1], p)

\* the scenario of the claim: centre (2, 0), size (4, 8), surface 800 x 600,
\* down at (400, 300), moved to (450, 300): the centre is (1.75, 0)
C2_Witness ==
    /\ Dragging
    /\ canvas = <<800, 600>>
    /\ down = <<[id |-> 1, x |-> 400, y |-> 300, cv |-> <<800, 600>>, view |-> InitialView]>>
    /\ view.center = Point(Frac(175, 100), Num(0))
    /\ view.center = DragDeltaCenter(down[1], <<450, 300>>)

\* the zoom factor 1 + 0.1 * deltaY / 125
ZoomFactor(dy) == Add(Num(1), Div(Mul(Frac(1, 10), Num(dy)), Num(125)))

\* C3: wheel zoom.  In any state a wheel event multiplies the live width and
\* height by 1 + 0.1 * deltaY / 125 and leaves the live centre, the session
\* and the cursor as they are.
C3_WheelZoom ==
    \A dy \in DeltaYs :
        LET t == wheel(S, WheelBy(dy))
        IN  /\ t.view.size.w = Mul(view.size.w, ZoomFactor(dy))
            /\ t.view.size.h = Mul(view.size.h, ZoomFactor(dy))
            /\ t.view.center = view.center
            /\ t.dragging = dragging
            /\ t.cursor = cursor

\* deltaY = 125 has turned size (4, 8) into (4.4, 8.8) during a session,
\* whose snapshot still has size (4, 8)
C3_Witness ==
    /\ Dragging
    /\ view.size = Rect(Frac(44, 10), Frac(88, 10))
    /\ dragging[1].view.size = Rect(Num(4), Num(8))
    /\ view.center = InitialView.center

\* C4: the live view's size satisfies w > 0 and h > 0 in every reachable state.
C4_SizePositive ==
    /\ Gt(view.size.w, Num(0))
    /\ Gt(view.size.h, Num(0))

RoundTripDone == job.kind = "roundtrip" /\ res # <<>>

\* C5 as claimed: unproject(project(p)) = p for any PlotView and any surface
\* dimensions.
C5_RoundTripAnyViewAnySurface ==
    RoundTripDone => res[1] = job.p

\* C5: projection round-trip.  For a PlotView with finite centre and non-zero
\* width and height and a surface of non-zero width and height,
\* unproject(project(p)) = p for every plot-space point p; both directions
\* take their bounds from the centre and size the view has at the call.
C5_RoundTrip ==
    ( /\ RoundTripDone
      /\ FiniteView(job.view)
      /\ job.view.size.w # Num(0)
      /\ job.view.size.h # Num(0)
      /\ job.cv[1] # 0
      /\ job.cv[2] # 0 )
    => res[1] = job.p

\* a point off the centre went through a view other than the constructed one
\* and came back
C5_Witness ==
    /\ RoundTripDone
    /\ job.view = PlotView(Point(Num(-1), Frac(3, 2)), Rect(Frac(22, 5), Frac(44, 5)))
    /\ job.cv = <<800, 600>>
    /\ job.p = Point(Frac(7, 4), Frac(1, 2))
    /\ res[1] = job.p

\* what the session holds if nothing has touched it since its pointer-down
Captured(d) ==
    [pointer_id |-> d.id,
     start      |-> unproject(d.view, d.cv, Point(Num(d.x), Num(d.y))),
     view       |-> d.view]

\* C6: frozen drag snapshot.  From the pointer-down that opens a session to
\* the pointer-up of the same pointer that ends it, the session's pointer id,
\* anchor and snapshot are the values captured at that pointer-down (the live
\* centre and size of that moment, the unprojection of the pointer-down
\* position), under any interleaving of pointer-move, wheel, resize and tick;
\* nothing but that pointer-up ends the session.
C6_FrozenSnapshot ==
    /\ Dragging <=> down # <<>>
    /\ Dragging => dragging[1] = Captured(down[1])

\* during a session the live view has been both rescaled and moved, and the
\* surface resized
C6_Witness ==
    /\ Dragging
    /\ dragging[1] = Captured(down[1])
    /\ view.size # dragging[1].view.size
    /\ view.center # dragging[1].view.center
    /\ canvas # down[1].cv

\* within 0.01 of an integer
NearInteger(x) ==
    LET m == Mod1(IF x[1] < 0 THEN Neg(x) ELSE x)
    IN  Leq(m, Frac(1, 100)) \/ Geq(m, Frac(99, 100))

GridDone == job.kind = "grid" /\ res # <<>>

\* C7: major gridlines.  Every minor gridline grid draws at a plot coordinate
\* within 0.01 of an integer has the heavier width 0.8 and every other one
\* the lighter width 0.2, in all four directions.
C7_MajorGridlines ==
    GridDone =>
        \A i \in 1..Len(res[1]) :
            res[1][i].kind = "minor" =>
                res[1][i].width = IF NearInteger(res[1][i].at) THEN MajorWidth ELSE MinorWidth

RECURSIVE StepSum(_, _, _, _, _, _)
StepSum(f, start, end, n, step, from) ==
    IF from >= n THEN Num(0)
    ELSE Add(Mul(step, Apply(f, map(Num(from), Num(0), Num(n - 1), start, end))),
             StepSum(f, start, end, n, step, from + 1))

\* the distance between consecutive sample points
SampleStep(start, end, n) ==
    Sub(map(Num(1), Num(0), Num(n - 1), start, end),
        map(Num(0), Num(0), Num(n - 1), start, end))

IntegrateDone == job.kind = "integrate" /\ res # <<>>

\* C9: integrator step.  For n >= 2, integrate(fn, start, end, n) is the sum
\* over the sampler's n points of step * fn(x_i) with
\* step = map(1, 0, n-1, start, end) - map(0, 0, n-1, start, end)
\*      = (end - start) / (n - 1), also when start is not 0.
C9_IntegratorStep ==
    (IntegrateDone /\ job.samples >= 2) =>
        /\ SampleStep(job.start, job.end, job.samples)
             = Div(Sub(job.end, job.start), Num(job.samples - 1))
        /\ res[1] = StepSum(job.f, job.start, job.end, job.samples,
                            SampleStep(job.start, job.end, job.samples), 0)

\* C10: animation loop.  Every tick runs clear, then the grid and the two
\* plots, then requests the next tick once, as its last call; a tick that has
\* started has finished (the loop never stops by itself), and between ticks
\* exactly one animation callback is pending, whatever input events were
\* delivered in between.
C10_AnimationLoop ==
    /\ ops # <<>> => ops = <<"clear", "grid", "plot", "plot", "requestAnimationFrame">>
    /\ pc = "idle"
    /\ pending = 1

====
